---- MODULE Spec2Model ----
(***************************************************************************)
(* Model of zenodolib.ZenodoHandler: a thin client that turns each method  *)
(* call into HTTP requests on a requests.Session and hands the response    *)
(* back.  A state is the client object (self), the arguments it was        *)
(* constructed with (ctor), the record of the last call (its arguments,    *)
(* the requests it issued, the replies it got, how it ended), the set of   *)
(* depositions this client sent a publish request for, and the file        *)
(* handles that are open between calls.  The remote service and the file system are the *)
(* environment: every reply and the readability of a path are chosen       *)
(* nondeterministically.                                                   *)
(***************************************************************************)
EXTENDS Integers, Sequences, FiniteSets, TLC

VARIABLES self, ctor, last, published, openFiles

vars == <<self, ctor, last, published, openFiles>>

(***************************************************************************)
(* Bounds and input domains                                                *)
(***************************************************************************)
MaxFileIds == 2

DepositionIds == {"d1", "d2"}
FileIds == {"f1", "f2"}
TargetNames == {"a.txt"}
Tokens == {"tokA", "tokB"}
ReadablePaths == {"data.bin"}
FilePaths == ReadablePaths \cup {"missing.bin"}

RECURSIVE SeqsUpTo(_, _)
SeqsUpTo(S, n) ==
    IF n = 0 THEN {<<>>}
    ELSE LET shorter == SeqsUpTo(S, n - 1)
         IN  shorter \cup {Append(s, x) : s \in {t \in shorter : Len(t) = n - 1}, x \in S}

FileIdLists == SeqsUpTo(FileIds, MaxFileIds)

(***************************************************************************)
(* Python values that reach dict.update and json.dumps                     *)
(***************************************************************************)
PyNone == [type |-> "NoneType", items |-> <<>>, elems |-> {}]
PyDict(items) == [type |-> "dict", items |-> items, elems |-> {}]
PySet(elems) == [type |-> "set", items |-> <<>>, elems |-> elems]

\* d[k] = v on an insertion-ordered dict: overwrite in place or append
DictSet(items, k, v) ==
    IF \E i \in 1..Len(items) : items[i][1] = k
    THEN [i \in 1..Len(items) |-> IF items[i][1] = k THEN <<k, v>> ELSE items[i]]
    ELSE Append(items, <<k, v>>)

RECURSIVE DictSetAll(_, _)
DictSetAll(items, pairs) ==
    IF pairs = <<>> THEN items
    ELSE DictSetAll(DictSet(items, Head(pairs)[1], Head(pairs)[2]), Tail(pairs))

\* {'id': file_id for file_id in file_ids}
IdDictComp(file_ids) ==
    PyDict(DictSetAll(<<>>, [i \in 1..Len(file_ids) |-> <<"id", file_ids[i]>>]))

\* dict.update(other): other must be iterable
DictUpdate(d, other) ==
    IF other.type = "dict"
    THEN [raised |-> FALSE, value |-> PyDict(DictSetAll(d.items, other.items))]
    ELSE [raised |-> TRUE, value |-> d]

\* body of a request
NoData == [kind |-> "none", members |-> <<>>, file |-> ""]
JsonText(members) == [kind |-> "json", members |-> members, file |-> ""]
FileStream(path) == [kind |-> "stream", members |-> <<>>, file |-> path]

JsonNull == [kind |-> "json_null", members |-> <<>>, file |-> ""]

\* json.dumps(value): a dict of strings becomes an object with its members in
\* insertion order, None becomes null, a set raises TypeError
JsonDumps(value) ==
    CASE value.type = "dict" -> [raised |-> FALSE, text |-> JsonText(value.items)]
      [] value.type = "NoneType" -> [raised |-> FALSE, text |-> JsonNull]
      [] OTHER -> [raised |-> TRUE, text |-> NoData]

(***************************************************************************)
(* StatusCode                                                              *)
(***************************************************************************)
ok == 200
created == 201
accepted == 202
no_content == 204
bad_request == 400
unathorized == 401
forbidden == 403
not_found == 404
method_not_allowed == 405
conflict == 409
payload_too_large == 413
unsupported_media_type == 415
too_many_requests == 429
internal_server_error == 500

StatusCode ==
    {ok, created, accepted, no_content, bad_request, unathorized, forbidden,
     not_found, method_not_allowed, conflict, payload_too_large,
     unsupported_media_type, too_many_requests, internal_server_error}

\* the client never branches on a status; the split is the caller's reading
FailureCodes == {c \in StatusCode : c >= 400}

(***************************************************************************)
(* URLs, requests and the replies of the remote service                    *)
(***************************************************************************)
Url(host, path) == [host |-> host, path |-> path]
NoUrl == Url("", <<>>)

SandboxBase == Url("sandbox.zenodo.org", <<"api">>)
ProductionBase == Url("zenodo.org", <<"api">>)

\* "{}a/b/{}".format(base_url, ...): the segments follow the base path
Format(base, segments) == Url(base.host, base.path \o segments)

\* what links.bucket may hold: the service chooses it, on either host
BucketUrls ==
    {Url("sandbox.zenodo.org", <<"api", "files", "bkt1">>),
     Url("zenodo.org", <<"api", "files", "bkt2">>)}

Body(json, links, bucket, url) ==
    [json |-> json, links |-> links, bucket |-> bucket, url |-> url]
NoBody == Body(FALSE, FALSE, FALSE, NoUrl)

\* not JSON, JSON without links.bucket, JSON with links.bucket
Bodies ==
    {NoBody, Body(TRUE, FALSE, FALSE, NoUrl)}
    \cup {Body(TRUE, TRUE, TRUE, u) : u \in BucketUrls}

\* the statuses the modelled service answers with: a success and a failure
RemoteStatuses == {ok, not_found}

\* a reply is a response (status and body) or a transport failure
TransportError == [transport_ok |-> FALSE, status |-> 0, body |-> NoBody]
Responses == [transport_ok : {TRUE}, status : RemoteStatuses, body : Bodies]
Replies == Responses \cup {TransportError}

Return(response) == [kind |-> "return", exc |-> "", response |-> response]
Raise(exc) == [kind |-> "raise", exc |-> exc, response |-> TransportError]

NoHeaders == {}
JsonHeaders == {<<"Content-Type", "application/json">>}

(***************************************************************************)
(* ZenodoHandler                                                           *)
(***************************************************************************)
\* requests.Session(): no proxies, no default query parameters
NewSession == [proxies |-> PyDict(<<>>), params |-> PyDict(<<>>)]

NoClient ==
    [constructed |-> FALSE, base_url |-> NoUrl, token |-> "", session |-> NewSession]

\* a request sent outside the session's defaults: no access_token parameter
SessionRequest_noauth(session, method, url, data, headers) ==
    [method |-> method, url |-> url, params |-> <<>>,
     proxies |-> session.proxies.items, data |-> data, headers |-> headers]

\* session.get/post/put/delete(url, data=, headers=): the session adds its
\* default query parameters and its proxies to the request it sends
SessionRequest(session, method, url, data, headers) ==
    [method |-> method, url |-> url, params |-> session.params.items,
     proxies |-> session.proxies.items, data |-> data, headers |-> headers]

\* the call of a session method ends as the transport ends
Deliver(reply) ==
    IF reply.transport_ok THEN Return(reply) ELSE Raise("ConnectionError")

\* what a handler has done when it ends: the requests it issued and the
\* replies it got, in order, how it ended, whether it opened the local file,
\* the handles it left open
Result(reqs, replies, outcome, opened, open) ==
    [reqs |-> reqs, replies |-> replies, outcome |-> outcome, opened |-> opened,
     open |-> open]

\* return self.session.<method>(url, ...)
Send(req, reply) == Result(<<req>>, <<reply>>, Deliver(reply), FALSE, {})

\* a constructor that ignores the test flag
ZenodoHandler_init_production(access_token, proxies, test) ==
    LET updated == DictUpdate(NewSession.proxies, proxies)
        params == PyDict(DictSet(NewSession.params.items, "access_token", access_token))
    IN  IF updated.raised
        THEN [client |-> NoClient, outcome |-> Raise("TypeError")]
        ELSE [client |-> [constructed |-> TRUE, base_url |-> ProductionBase,
                          token |-> access_token,
                          session |-> [proxies |-> updated.value, params |-> params]],
              outcome |-> Return(TransportError)]

\* ZenodoHandler(access_token, proxies=None, test=False)
ZenodoHandler_defaults == [proxies |-> PyNone, test |-> FALSE]

ZenodoHandler_init(access_token, proxies, test) ==
    LET base_url == IF test THEN SandboxBase ELSE ProductionBase
        updated == DictUpdate(NewSession.proxies, proxies)
        params == PyDict(DictSet(NewSession.params.items, "access_token", access_token))
    IN  IF updated.raised
        THEN [client |-> NoClient, outcome |-> Raise("TypeError")]
        ELSE [client |-> [constructed |-> TRUE, base_url |-> base_url,
                          token |-> access_token,
                          session |-> [proxies |-> updated.value, params |-> params]],
              outcome |-> Return(TransportError)]

deposition_list(h, reply) ==
    Send(SessionRequest(h.session, "GET",
                        Format(h.base_url, <<"deposit", "depositions">>),
                        NoData, NoHeaders), reply)

deposition_create(h, reply) ==
    Send(SessionRequest(h.session, "POST",
                        Format(h.base_url, <<"deposit", "depositions">>),
                        JsonText(<<>>), JsonHeaders), reply)

deposition_retrieve(h, deposition_id, reply) ==
    Send(SessionRequest(h.session, "GET",
                        Format(h.base_url, <<"deposit", "depositions", deposition_id>>),
                        NoData, NoHeaders), reply)

deposition_update(h, deposition_id, data, reply) ==
    LET dumped == JsonDumps(data)
    IN  IF dumped.raised THEN Result(<<>>, <<>>, Raise("TypeError"), FALSE, {})
        ELSE Send(SessionRequest(h.session, "PUT",
                                 Format(h.base_url, <<"deposit", "depositions", deposition_id>>),
                                 dumped.text, JsonHeaders), reply)

deposition_delete(h, deposition_id, reply) ==
    Send(SessionRequest(h.session, "DELETE",
                        Format(h.base_url, <<"deposit", "depositions", deposition_id>>),
                        NoData, NoHeaders), reply)

deposition_files_list(h, deposition_id, reply) ==
    Send(SessionRequest(h.session, "GET",
                        Format(h.base_url, <<"deposit", "depositions", deposition_id, "files">>),
                        NoData, NoHeaders), reply)

\* r.json()['links']['bucket']
BucketOf(response) ==
    CASE ~response.body.json -> [raised |-> TRUE, exc |-> "JSONDecodeError", url |-> NoUrl]
      [] ~response.body.links \/ ~response.body.bucket ->
            [raised |-> TRUE, exc |-> "KeyError", url |-> NoUrl]
      [] OTHER -> [raised |-> FALSE, exc |-> "", url |-> response.body.url]

\* an open whose failure goes unnoticed
Open_unchecked(file_path) == [raised |-> FALSE, handles |-> {file_path}]

\* open(file_path, 'rb')
Open(file_path) ==
    IF file_path \in ReadablePaths
    THEN [raised |-> FALSE, handles |-> {file_path}]
    ELSE [raised |-> TRUE, handles |-> {}]

\* the handle passed on without a with block: nothing closes it
ContextExit_leak(handles, fp) == handles

\* leaving the with block closes fp, on return and on exception alike
ContextExit(handles, fp) == handles \ {fp}

\* the upload sent with the headers of the JSON operations
UploadHeaders_json == {<<"Accept", "application/json">>, <<"Content-Type", "application/json">>}

UploadHeaders ==
    {<<"Accept", "application/json">>, <<"Content-Type", "application/octet-stream">>}

deposition_files_create(h, deposition_id, target_name, file_path, getReply, putReply) ==
    LET r == deposition_retrieve(h, deposition_id, getReply)
        bucket == BucketOf(r.outcome.response)
        url == Url(bucket.url.host, Append(bucket.url.path, target_name))
        fp == Open(file_path)
        put == SessionRequest(h.session, "PUT", url, FileStream(file_path), UploadHeaders)
    IN  CASE r.outcome.kind = "raise" -> r
          [] bucket.raised -> Result(r.reqs, r.replies, Raise(bucket.exc), FALSE, {})
          [] fp.raised -> Result(r.reqs, r.replies, Raise("FileNotFoundError"), FALSE, {})
          [] OTHER -> Result(Append(r.reqs, put), Append(r.replies, putReply),
                             Deliver(putReply), TRUE, ContextExit(fp.handles, file_path))

deposition_files_sort(h, deposition_id, file_ids, reply) ==
    LET dumped == JsonDumps(IdDictComp(file_ids))
    IN  IF dumped.raised THEN Result(<<>>, <<>>, Raise("TypeError"), FALSE, {})
        ELSE Send(SessionRequest(h.session, "PUT",
                                 Format(h.base_url, <<"deposit", "depositions", deposition_id, "files">>),
                                 dumped.text, JsonHeaders), reply)

deposition_files_retrieve(h, deposition_id, file_id, reply) ==
    Send(SessionRequest(h.session, "GET",
                        Format(h.base_url, <<"deposit", "depositions", deposition_id, "files", file_id>>),
                        NoData, NoHeaders), reply)

deposition_files_update(h, deposition_id, file_id, target_name, reply) ==
    LET dumped == JsonDumps(PySet({"filename", target_name}))
    IN  IF dumped.raised THEN Result(<<>>, <<>>, Raise("TypeError"), FALSE, {})
        ELSE Send(SessionRequest(h.session, "PUT",
                                 Format(h.base_url, <<"deposit", "depositions", deposition_id, "files", file_id>>),
                                 dumped.text, JsonHeaders), reply)

\* a delete that refuses locally once the deposition was published
deposition_files_delete_guarded(h, deposition_id, file_id, reply) ==
    IF deposition_id \in published
    THEN Result(<<>>, <<>>, Raise("ValueError"), FALSE, {})
    ELSE Send(SessionRequest(h.session, "DELETE",
                             Format(h.base_url, <<"deposit", "depositions", deposition_id, "files", file_id>>),
                             NoData, NoHeaders), reply)

deposition_files_delete(h, deposition_id, file_id, reply) ==
    Send(SessionRequest(h.session, "DELETE",
                        Format(h.base_url, <<"deposit", "depositions", deposition_id, "files", file_id>>),
                        NoData, NoHeaders), reply)

deposition_actions_publish(h, deposition_id, reply) ==
    Send(SessionRequest(h.session, "POST",
                        Format(h.base_url, <<"deposit", "depositions", deposition_id, "actions", "publish">>),
                        NoData, NoHeaders), reply)

deposition_actions_edit(h, deposition_id, reply) ==
    Send(SessionRequest(h.session, "POST",
                        Format(h.base_url, <<"deposit", "depositions", deposition_id, "actions", "edit">>),
                        NoData, NoHeaders), reply)

deposition_actions_discard(h, deposition_id, reply) ==
    Send(SessionRequest(h.session, "POST",
                        Format(h.base_url, <<"deposit", "depositions", deposition_id, "actions", "discard">>),
                        NoData, NoHeaders), reply)

deposition_actions_newversion(h, deposition_id, reply) ==
    Send(SessionRequest(h.session, "POST",
                        Format(h.base_url, <<"deposit", "depositions", deposition_id, "actions", "newversion">>),
                        NoData, NoHeaders), reply)

(***************************************************************************)
(* The caller: one action per method, its inputs and the service's replies *)
(* chosen by the environment                                               *)
(***************************************************************************)
Metadata == {PyDict(<<>>), PyDict(<< <<"title", "t1">> >>)}
ProxyArgs == {PyNone, PyDict(<< <<"http", "proxy.local:3128">> >>)}

NoArgs ==
    [deposition_id |-> "", file_id |-> "", target_name |-> "", file_path |-> "",
     file_ids |-> <<>>, data |-> PyNone, access_token |-> "", proxies |-> PyNone,
     test |-> FALSE, omitted |-> {}]

NoCall ==
    [op |-> "", args |-> NoArgs, reqs |-> <<>>, replies |-> <<>>,
     outcome |-> Return(TransportError), opened |-> FALSE]

Init ==
    /\ self = NoClient
    /\ ctor = NoArgs
    /\ last = NoCall
    /\ published = {}
    /\ openFiles = {}

\* a method call on the constructed client ends with result res
Finish(op, args, res) ==
    /\ last' = [op |-> op, args |-> args, reqs |-> res.reqs, replies |-> res.replies,
                outcome |-> res.outcome, opened |-> res.opened]
    /\ openFiles' = openFiles \cup res.open
    /\ published' = IF op = "deposition_actions_publish" /\ res.reqs # <<>>
                    THEN published \cup {args.deposition_id}
                    ELSE published
    /\ UNCHANGED <<self, ctor>>

Construct ==
    \E access_token \in Tokens, omitted \in SUBSET {"proxies", "test"},
       proxiesArg \in ProxyArgs, testArg \in BOOLEAN :
        LET proxies == IF "proxies" \in omitted THEN ZenodoHandler_defaults.proxies ELSE proxiesArg
            test == IF "test" \in omitted THEN ZenodoHandler_defaults.test ELSE testArg
            made == ZenodoHandler_init(access_token, proxies, test)
            args == [NoArgs EXCEPT !.access_token = access_token, !.proxies = proxies,
                                   !.test = test, !.omitted = omitted]
        IN  /\ self' = made.client
            /\ ctor' = IF made.client.constructed THEN [args EXCEPT !.omitted = {}] ELSE NoArgs
            /\ last' = [NoCall EXCEPT !.op = "__init__", !.args = args,
                                      !.outcome = made.outcome]
            /\ published' = {}
            /\ UNCHANGED openFiles

ListDepositions ==
    /\ self.constructed
    /\ \E reply \in Replies :
        Finish("deposition_list", NoArgs, deposition_list(self, reply))

CreateDeposition ==
    /\ self.constructed
    /\ \E reply \in Replies :
        Finish("deposition_create", NoArgs, deposition_create(self, reply))

GetDeposition ==
    /\ self.constructed
    /\ \E d \in DepositionIds, reply \in Replies :
        Finish("deposition_retrieve", [NoArgs EXCEPT !.deposition_id = d],
               deposition_retrieve(self, d, reply))

UpdateDeposition ==
    /\ self.constructed
    /\ \E d \in DepositionIds, data \in Metadata, reply \in Replies :
        Finish("deposition_update", [NoArgs EXCEPT !.deposition_id = d, !.data = data],
               deposition_update(self, d, data, reply))

DeleteDeposition ==
    /\ self.constructed
    /\ \E d \in DepositionIds, reply \in Replies :
        Finish("deposition_delete", [NoArgs EXCEPT !.deposition_id = d],
               deposition_delete(self, d, reply))

ListFiles ==
    /\ self.constructed
    /\ \E d \in DepositionIds, reply \in Replies :
        Finish("deposition_files_list", [NoArgs EXCEPT !.deposition_id = d],
               deposition_files_list(self, d, reply))

UploadFile ==
    /\ self.constructed
    /\ \E d \in DepositionIds, name \in TargetNames, path \in FilePaths, getReply \in Replies :
       \* the service answers the PUT only when the call gets as far as the PUT
       \E putReply \in IF Len(deposition_files_create(self, d, name, path, getReply,
                                                      TransportError).reqs) > 1
                        THEN Replies ELSE {TransportError} :
        Finish("deposition_files_create",
               [NoArgs EXCEPT !.deposition_id = d, !.target_name = name, !.file_path = path],
               deposition_files_create(self, d, name, path, getReply, putReply))

SortFiles ==
    /\ self.constructed
    /\ \E d \in DepositionIds, ids \in FileIdLists, reply \in Replies :
        Finish("deposition_files_sort", [NoArgs EXCEPT !.deposition_id = d, !.file_ids = ids],
               deposition_files_sort(self, d, ids, reply))

GetFile ==
    /\ self.constructed
    /\ \E d \in DepositionIds, f \in FileIds, reply \in Replies :
        Finish("deposition_files_retrieve", [NoArgs EXCEPT !.deposition_id = d, !.file_id = f],
               deposition_files_retrieve(self, d, f, reply))

RenameFile ==
    /\ self.constructed
    /\ \E d \in DepositionIds, f \in FileIds, name \in TargetNames, reply \in Replies :
        Finish("deposition_files_update",
               [NoArgs EXCEPT !.deposition_id = d, !.file_id = f, !.target_name = name],
               deposition_files_update(self, d, f, name, reply))

DeleteFile ==
    /\ self.constructed
    /\ \E d \in DepositionIds, f \in FileIds, reply \in Replies :
        Finish("deposition_files_delete", [NoArgs EXCEPT !.deposition_id = d, !.file_id = f],
               deposition_files_delete(self, d, f, reply))

Publish ==
    /\ self.constructed
    /\ \E d \in DepositionIds, reply \in Replies :
        Finish("deposition_actions_publish", [NoArgs EXCEPT !.deposition_id = d],
               deposition_actions_publish(self, d, reply))

Edit ==
    /\ self.constructed
    /\ \E d \in DepositionIds, reply \in Replies :
        Finish("deposition_actions_edit", [NoArgs EXCEPT !.deposition_id = d],
               deposition_actions_edit(self, d, reply))

Discard ==
    /\ self.constructed
    /\ \E d \in DepositionIds, reply \in Replies :
        Finish("deposition_actions_discard", [NoArgs EXCEPT !.deposition_id = d],
               deposition_actions_discard(self, d, reply))

NewVersion ==
    /\ self.constructed
    /\ \E d \in DepositionIds, reply \in Replies :
        Finish("deposition_actions_newversion", [NoArgs EXCEPT !.deposition_id = d],
               deposition_actions_newversion(self, d, reply))

Next ==
    \/ Construct
    \/ ListDepositions
    \/ CreateDeposition
    \/ GetDeposition
    \/ UpdateDeposition
    \/ DeleteDeposition
    \/ ListFiles
    \/ UploadFile
    \/ SortFiles
    \/ GetFile
    \/ RenameFile
    \/ DeleteFile
    \/ Publish
    \/ Edit
    \/ Discard
    \/ NewVersion

Spec == Init /\ [][Next]_vars

(***************************************************************************)
(* Properties                                                              *)
(***************************************************************************)
ConfiguredHost == IF ctor.test THEN "sandbox.zenodo.org" ELSE "zenodo.org"

DepositionPath(d) == <<"api", "deposit", "depositions", d>>

HasParam(req, name, value) ==
    \E i \in 1..Len(req.params) : req.params[i] = <<name, value>>

UploadCalled == last.op = "deposition_files_create"

\* the GET of the last upload was answered with a body that has links.bucket
UploadGotBucket ==
    /\ UploadCalled
    /\ Len(last.replies) >= 1
    /\ last.replies[1].transport_ok
    /\ last.replies[1].body.json /\ last.replies[1].body.links /\ last.replies[1].body.bucket

\* C1 as stated: an upload of a local file that cannot be opened fails with the
\* file-access error and has issued no HTTP request at all.
C1_FailsBeforeAnyRequest ==
    (UploadCalled /\ last.args.file_path \notin ReadablePaths)
        => /\ last.outcome = Raise("FileNotFoundError")
           /\ last.reqs = <<>>

\* C1 amended: an upload of a local file that cannot be opened issues exactly one
\* request, the GET of the deposition, and never the PUT; it ends in an
\* exception, and that exception is the file-access error whenever the GET was
\* answered with a body that has links.bucket.
C1_FailsAfterGetBeforePut ==
    (UploadCalled /\ last.args.file_path \notin ReadablePaths)
        => /\ Len(last.reqs) = 1
           /\ last.reqs[1].method = "GET"
           /\ last.reqs[1].url.path = DepositionPath(last.args.deposition_id)
           /\ last.outcome.kind = "raise"
           /\ ~last.opened
           /\ UploadGotBucket => last.outcome = Raise("FileNotFoundError")

C1_Witness ==
    /\ UploadCalled
    /\ last.args.file_path \notin ReadablePaths
    /\ UploadGotBucket
    /\ last.outcome.exc = "FileNotFoundError"

\* C2 as stated: the body of the PUT of sortFiles carries every input file id,
\* once each, in the order of the input list.
C2_SortBodyKeepsEveryId ==
    (last.op = "deposition_files_sort" /\ last.reqs # <<>>)
        => LET members == last.reqs[1].data.members
           IN  /\ Len(members) = Len(last.args.file_ids)
               /\ \A i \in 1..Len(members) : members[i] = <<"id", last.args.file_ids[i]>>

\* C3 as stated: renameFile issues exactly one request, a PUT to
\* /deposit/depositions/{id}/files/{file_id} whose JSON body carries the new
\* filename, and returns the response to that request.
C3_RenameIssuesOnePut ==
    last.op = "deposition_files_update"
        => /\ Len(last.reqs) = 1
           /\ last.reqs[1].method = "PUT"
           /\ last.reqs[1].url.path =
                  DepositionPath(last.args.deposition_id) \o <<"files", last.args.file_id>>
           /\ last.reqs[1].data.kind = "json"
           /\ \E i \in 1..Len(last.reqs[1].data.members) :
                  last.reqs[1].data.members[i] = <<"filename", last.args.target_name>>
           /\ last.replies[1].transport_ok => last.outcome = Return(last.replies[1])

\* C4: an upload of a readable file to a deposition whose GET is answered with
\* links.bucket issues exactly two requests, the GET of the deposition and then
\* the PUT to {links.bucket}/{target_name} with Content-Type
\* application/octet-stream; every other operation issues at most one request.
C4_UploadIsGetThenPut ==
    /\ (UploadGotBucket /\ last.args.file_path \in ReadablePaths)
         => /\ Len(last.reqs) = 2
            /\ last.reqs[1].method = "GET"
            /\ last.reqs[1].url = Url(ConfiguredHost, DepositionPath(last.args.deposition_id))
            /\ last.reqs[2].method = "PUT"
            /\ last.reqs[2].url.host = last.replies[1].body.url.host
            /\ last.reqs[2].url.path =
                   Append(last.replies[1].body.url.path, last.args.target_name)
            /\ <<"Content-Type", "application/octet-stream">> \in last.reqs[2].headers
            /\ last.reqs[2].data = FileStream(last.args.file_path)
    /\ ~UploadCalled => Len(last.reqs) <= 1

C4_Witness ==
    /\ UploadGotBucket
    /\ Len(last.reqs) = 2
    /\ last.reqs[2].method = "PUT"
    /\ last.outcome.kind = "return"

\* C5 as stated: every request of every operation, the PUT of an upload
\* included, is addressed to the sandbox host when the client was constructed
\* with test=true and to the production host otherwise.
C5_EveryRequestOnConfiguredHost ==
    \A i \in 1..Len(last.reqs) : last.reqs[i].url.host = ConfiguredHost

\* C5 amended: every request is addressed to the host the test flag selects,
\* except the PUT of an upload, which is addressed to the host of the
\* links.bucket URL the service returned for the deposition.
C5_HostFollowsTestFlagOrBucket ==
    \A i \in 1..Len(last.reqs) :
        IF UploadCalled /\ i = 2
        THEN last.reqs[i].url.host = last.replies[1].body.url.host
        ELSE last.reqs[i].url.host = ConfiguredHost

C5_Witness ==
    /\ UploadCalled
    /\ ctor.test
    /\ Len(last.reqs) = 2
    /\ last.reqs[1].url.host = "sandbox.zenodo.org"
    /\ last.reqs[2].url.host = "zenodo.org"

\* C6 as stated: constructing the client with a token and no proxies argument
\* succeeds and yields a usable client.
C6_ConstructsWithoutProxies ==
    (last.op = "__init__" /\ "proxies" \in last.args.omitted)
        => /\ last.outcome.kind = "return"
           /\ self.constructed

LifecycleOps ==
    {"deposition_files_delete", "deposition_delete", "deposition_actions_edit",
     "deposition_actions_discard", "deposition_actions_newversion",
     "deposition_actions_publish"}

\* method and path of the operations of the deposition lifecycle
LifecycleMethod(op) ==
    IF op \in {"deposition_files_delete", "deposition_delete"} THEN "DELETE" ELSE "POST"

LifecyclePath(op, args) ==
    DepositionPath(args.deposition_id) \o
        CASE op = "deposition_files_delete" -> <<"files", args.file_id>>
          [] op = "deposition_delete" -> <<>>
          [] op = "deposition_actions_edit" -> <<"actions", "edit">>
          [] op = "deposition_actions_discard" -> <<"actions", "discard">>
          [] op = "deposition_actions_newversion" -> <<"actions", "newversion">>
          [] op = "deposition_actions_publish" -> <<"actions", "publish">>

\* C7: whatever was called before (a publish of the same deposition included),
\* deleteFile, deleteDeposition, edit, discard, newVersion and publish issue
\* their one request with the method and path of the operation and end as the
\* transport ends; no earlier call blocks or alters them.
C7_NoLocalLifecycleGuard ==
    last.op \in LifecycleOps
        => /\ Len(last.reqs) = 1
           /\ last.reqs[1].method = LifecycleMethod(last.op)
           /\ last.reqs[1].url = Url(ConfiguredHost, LifecyclePath(last.op, last.args))
           /\ last.outcome = Deliver(last.replies[1])

C7_Witness ==
    /\ last.op = "deposition_files_delete"
    /\ last.args.deposition_id \in published
    /\ Len(last.reqs) = 1

\* C8 as stated: when the service answers a request of an operation with a
\* failure status, the operation returns that response and raises nothing; an
\* upload whose GET is answered with a failure status and no links.bucket
\* returns that response.
C8_FailureResponseIsReturned ==
    LET n == Len(last.replies)
    IN  (n >= 1 /\ last.replies[n].transport_ok /\ last.replies[n].status \in FailureCodes)
            => last.outcome = Return(last.replies[n])

C9_TokenOnEveryRequest ==
    /\ \A i \in 1..Len(last.reqs) : HasParam(last.reqs[i], "access_token", ctor.access_token)
    /\ self.constructed
         => /\ self.token = ctor.access_token
            /\ self.base_url.host = ConfiguredHost
            /\ self.session.proxies = ctor.proxies

C9_ConfigurationFixed ==
    (self.constructed /\ last'.op # "__init__") => (self' = self /\ ctor' = ctor)

\* C9: every request of every operation, both requests of an upload included,
\* carries the access token given at construction as the access_token query
\* parameter, and no operation changes the token, base URL or proxies of the
\* client.
C9_TokenAttachedConfigFixed ==
    [] C9_TokenOnEveryRequest /\ [][C9_ConfigurationFixed]_vars

C9_Witness ==
    /\ UploadCalled
    /\ Len(last.reqs) = 2
    /\ ctor.access_token = "tokB"
    /\ HasParam(last.reqs[2], "access_token", "tokB")

\* C10: no file handle opened by the client is open once a call has ended,
\* whether the PUT of the upload returned a response or failed in transport.
C10_NoHandleLeftOpen ==
    openFiles = {}

C10_Witness ==
    /\ UploadCalled
    /\ last.opened
    /\ last.outcome = Raise("ConnectionError")

====
